---- MODULE Spec2Model ----
(***************************************************************************)
(* A model of markupify.page.HTMLPage: a page that owns a Head and a Body  *)
(* element, replaces or appends their content, renders the document to a   *)
(* string, pretty-prints it and writes it to a file.                       *)
(*                                                                         *)
(* A string of markup is a sequence of tokens; Python's str + str is \o.   *)
(* An element renders to an open-tag token (carrying its attribute map),   *)
(* its content and a close-tag token.  A Python str fragment is one text   *)
(* token (the empty str is the empty sequence).                            *)
(***************************************************************************)
EXTENDS Integers, Sequences, FiniteSets, TLC

\* Longest argument list of one call.
MaxArgs == 2
\* Most content (in tokens) a page holds, head and body together.
MaxContent == 4

VARIABLES
    lang,         \* self.lang
    template,     \* self.template
    head,         \* self.head (a Head object)
    body,         \* self.body (a Body object)
    op,           \* the method called last
    args,         \* the positional arguments of the last call, if it was the constructor
                  \* or a set_* / add_tag_to_* call that returned; <<>> otherwise
    kwargs,       \* the keyword arguments (**props) of that call
    ret,          \* what the last call returned, or the exception it raised
    last_render,  \* history: the last render() result since the last mutator call
    pc,           \* position inside write(): "idle" or "write_body"
    handles,      \* number of open file handles
    written       \* what the last call did to the file it was given: whether it
                  \* opened (created or truncated) it, and the lines it wrote

page == <<lang, template, head, body>>
vars == <<lang, template, head, body, op, args, kwargs, ret, last_render,
          pc, handles, written>>

----------------------------------------------------------------------------
\* Tokens of markup text.

DocTypeTok == [t |-> "doctype", name |-> "html", attrs |-> <<>>]
Open(tag, props) == [t |-> "open", name |-> tag, attrs |-> props]
Close(tag) == [t |-> "close", name |-> tag, attrs |-> <<>>]
Text(s) == [t |-> "text", name |-> s, attrs |-> <<>>]

----------------------------------------------------------------------------
\* The tag classes of markupify.tags: value objects with a tag name, a content
\* string, an attribute map, and a string form open-tag/content/close-tag.

Element(cls, tag, tag_content, props) ==
    [cls |-> cls, tag |-> tag, tag_content |-> tag_content, props |-> props]

HeadTag(tag_content, props) == Element("Head", "head", tag_content, props)
BodyTag(tag_content, props) == Element("Body", "body", tag_content, props)
Html(tag_content, props) == Element("Html", "html", tag_content, props)
DocType == Element("DocType", "!DOCTYPE", <<>>, <<>>)
P(tag_content) == Element("P", "p", tag_content, <<>>)

\* str(element)
StrElement(e) ==
    IF e.cls = "DocType" THEN <<DocTypeTok>>
    ELSE <<Open(e.tag, e.props)>> \o e.tag_content \o <<Close(e.tag)>>

----------------------------------------------------------------------------
\* Python values passed as fragments and constructor arguments.

PyNone == [kind |-> "None", s |-> ""]
PyStr(s) == [kind |-> "str", s |-> s]
PyElem(s) == [kind |-> "Element", s |-> s]      \* the element P(s)
PyBad == [kind |-> "object", s |-> ""]          \* an object whose __str__ raises

\* str(v), for the values whose conversion succeeds
Str(v) ==
    CASE v.kind = "str" -> IF v.s = "" THEN <<>> ELSE <<Text(v.s)>>
      [] v.kind = "None" -> <<Text("None")>>
      [] v.kind = "Element" -> StrElement(P(IF v.s = "" THEN <<>> ELSE <<Text(v.s)>>))

StrRaises(v) == v.kind = "object"

\* bool(v): None and the empty str are falsy; an element is a plain value
\* object (no __bool__ or __len__), so it is truthy like any other object.
Truthy(v) ==
    CASE v.kind = "str" -> v.s # ""
      [] v.kind = "None" -> FALSE
      [] OTHER -> TRUE

\* What a call gave back: an object (a section is returned by reference, so the
\* caller sees the object with its fields), a string, None, or an exception.
NoObj == [cls |-> "", tag |-> "", tag_content |-> <<>>, props |-> <<>>]
RetObj(o) == [kind |-> "object", obj |-> o, text |-> <<>>, exc |-> ""]
RetStr(t) == [kind |-> "str", obj |-> NoObj, text |-> t, exc |-> ""]
RetNone == [kind |-> "None", obj |-> NoObj, text |-> <<>>, exc |-> ""]
RetRaise(e) == [kind |-> "raise", obj |-> NoObj, text |-> <<>>, exc |-> e]
Pending == [kind |-> "pending", obj |-> NoObj, text |-> <<>>, exc |-> ""]

\* The render history: no result since the last mutator call (Stale), or the
\* latest result, and whether an earlier one preceded it with no mutator between.
Stale == [valid |-> FALSE, text |-> <<>>, again |-> FALSE]
Fresh(t, again) == [valid |-> TRUE, text |-> t, again |-> again]

----------------------------------------------------------------------------
\* Inputs.

Langs == {"en", "fr"}
Fragments == {PyStr("<p>hi</p>"), PyElem(""), PyBad}
InitArgs == {PyNone, PyStr(""), PyStr("<p>hi</p>"), PyElem("hi")}
PropsChoices == {<<>>, <<<<"id", "m">>>>}
ContentArgs == {PyStr(""), PyStr("<p>hi</p>")}
GoodPath == "out.html"
BadPath == "/nonexistent-dir/out.html"
Paths == {GoodPath, BadPath}

\* Argument lists. Both loops stop at the first conversion that raises and never
\* read the arguments after it, so a fragment that raises is taken as the last.
ArgSeqs ==
    {a \in UNION {[1..n -> Fragments] : n \in 0..MaxArgs} :
        \A i \in 1..(Len(a) - 1) : ~StrRaises(a[i])}

----------------------------------------------------------------------------
\* The loop of set_head / set_body: content = ""; content += str(tag).
\* The result carries whether a conversion raised.

RECURSIVE ContentLoop(_, _)
ContentLoop(content, tags) ==
    IF tags = <<>> THEN [content |-> content, raised |-> FALSE]
    ELSE IF StrRaises(Head(tags)) THEN [content |-> content, raised |-> TRUE]
    ELSE ContentLoop(content \o Str(Head(tags)), Tail(tags))

\* A loop that assigns where the code appends.
RECURSIVE AppendLoopReplacing(_, _)
AppendLoopReplacing(section, tags) ==
    IF tags = <<>> THEN [section |-> section, raised |-> FALSE]
    ELSE IF StrRaises(Head(tags)) THEN [section |-> section, raised |-> TRUE]
    ELSE AppendLoopReplacing([section EXCEPT !.tag_content = Str(Head(tags))], Tail(tags))

\* The loop of add_tag_to_head / add_tag_to_body:
\* section.tag_content += str(tag), in place, one tag at a time.
RECURSIVE AppendLoop(_, _)
AppendLoop(section, tags) ==
    IF tags = <<>> THEN [section |-> section, raised |-> FALSE]
    ELSE IF StrRaises(Head(tags)) THEN [section |-> section, raised |-> TRUE]
    ELSE AppendLoop([section EXCEPT !.tag_content = @ \o Str(Head(tags))], Tail(tags))

----------------------------------------------------------------------------
\* Rendering.

doc_type == DocType

\* An html element that puts the body before the head.
html_body_first == Html(StrElement(body) \o StrElement(head), <<<<"lang", lang>>>>)

html == Html(StrElement(head) \o StrElement(body), <<<<"lang", lang>>>>)

Field(name) == IF name = "doc_type" THEN StrElement(doc_type) ELSE StrElement(html)

\* str.format on the template: each placeholder replaced by str() of its field
RECURSIVE Format(_)
Format(tpl) == IF tpl = <<>> THEN <<>> ELSE Field(Head(tpl)) \o Format(Tail(tpl))

render == Format(template)

\* BeautifulSoup(...).prettify(): one token per line, indented by nesting depth.
RECURSIVE Prettify(_, _)
Prettify(text, depth) ==
    IF text = <<>> THEN <<>>
    ELSE LET tok == Head(text)
             d == IF tok.t = "close" THEN depth - 1 ELSE depth
             nd == IF tok.t = "open" THEN depth + 1 ELSE d
         IN  <<[indent |-> d, tok |-> tok]>> \o Prettify(Tail(text), nd)

pretty(html_content) ==
    Prettify(IF ~Truthy(html_content) THEN render ELSE Str(html_content), 0)

----------------------------------------------------------------------------
\* Construction.

\* A constructor that honours a truthy initial head.
InitHeadHonouring(h) ==
    IF Truthy(h) THEN HeadTag(ContentLoop(<<>>, <<h>>).content, <<>>)
    ELSE HeadTag(<<>>, <<>>)

\* self.head = self.set_head(head) if not bool(head) else Head()
InitHead(h) ==
    IF ~Truthy(h) THEN HeadTag(ContentLoop(<<>>, <<h>>).content, <<>>)
    ELSE HeadTag(<<>>, <<>>)

\* self.body = self.set_body(body) if not bool(body) else Body()
InitBody(b) ==
    IF ~Truthy(b) THEN BodyTag(ContentLoop(<<>>, <<b>>).content, <<>>)
    ELSE BodyTag(<<>>, <<>>)

NoOutput == [opened |-> FALSE, lines |-> <<>>]

Init ==
    \E h \in InitArgs, b \in InitArgs, l \in Langs :
        /\ lang = l
        /\ template = <<"doc_type", "html">>
        /\ head = InitHead(h)
        /\ body = InitBody(b)
        /\ op = "__init__"
        /\ args = <<h, b>> /\ kwargs = <<>>
        /\ ret = RetNone
        /\ last_render = Stale
        /\ pc = "idle"
        /\ handles = 0
        /\ written = NoOutput

----------------------------------------------------------------------------
\* Operations.

\* A set_head that builds on the old content.
set_head_keeping(tags, props) ==
    LET r == ContentLoop(head.tag_content, tags) IN
    /\ pc = "idle"
    /\ Len(r.content) + Len(body.tag_content) <= MaxContent
    /\ op' = "set_head"
    /\ IF r.raised
       THEN /\ ret' = RetRaise("Exception")
            /\ args' = <<>> /\ kwargs' = <<>>
            /\ UNCHANGED head
       ELSE /\ args' = tags /\ kwargs' = props
            /\ head' = HeadTag(r.content, props)
            /\ ret' = RetObj(head')
    /\ last_render' = Stale /\ written' = NoOutput
    /\ UNCHANGED <<lang, template, body, pc, handles>>

set_head(tags, props) ==
    LET r == ContentLoop(<<>>, tags) IN
    /\ pc = "idle"
    /\ Len(r.content) + Len(body.tag_content) <= MaxContent
    /\ op' = "set_head"
    /\ IF r.raised
       THEN /\ ret' = RetRaise("Exception")
            /\ args' = <<>> /\ kwargs' = <<>>
            /\ UNCHANGED head
       ELSE /\ args' = tags /\ kwargs' = props
            /\ head' = HeadTag(r.content, props)
            /\ ret' = RetObj(head')
    /\ last_render' = Stale /\ written' = NoOutput
    /\ UNCHANGED <<lang, template, body, pc, handles>>

\* A set_body that constructs a Head.
set_body_as_head(tags, props) ==
    LET r == ContentLoop(<<>>, tags) IN
    /\ pc = "idle"
    /\ Len(r.content) + Len(head.tag_content) <= MaxContent
    /\ op' = "set_body"
    /\ IF r.raised
       THEN /\ ret' = RetRaise("Exception")
            /\ args' = <<>> /\ kwargs' = <<>>
            /\ UNCHANGED body
       ELSE /\ args' = tags /\ kwargs' = props
            /\ body' = HeadTag(r.content, props)
            /\ ret' = RetObj(body')
    /\ last_render' = Stale /\ written' = NoOutput
    /\ UNCHANGED <<lang, template, head, pc, handles>>

set_body(tags, props) ==
    LET r == ContentLoop(<<>>, tags) IN
    /\ pc = "idle"
    /\ Len(r.content) + Len(head.tag_content) <= MaxContent
    /\ op' = "set_body"
    /\ IF r.raised
       THEN /\ ret' = RetRaise("Exception")
            /\ args' = <<>> /\ kwargs' = <<>>
            /\ UNCHANGED body
       ELSE /\ args' = tags /\ kwargs' = props
            /\ body' = BodyTag(r.content, props)
            /\ ret' = RetObj(body')
    /\ last_render' = Stale /\ written' = NoOutput
    /\ UNCHANGED <<lang, template, head, pc, handles>>

add_tag_to_head(tags) ==
    LET r == AppendLoop(head, tags) IN
    /\ pc = "idle"
    /\ Len(r.section.tag_content) + Len(body.tag_content) <= MaxContent
    /\ op' = "add_tag_to_head"
    /\ head' = r.section
    /\ ret' = IF r.raised THEN RetRaise("Exception") ELSE RetObj(head')
    /\ args' = (IF r.raised THEN <<>> ELSE tags) /\ kwargs' = <<>>
    /\ last_render' = Stale /\ written' = NoOutput
    /\ UNCHANGED <<lang, template, body, pc, handles>>

\* An add_tag_to_body whose loop also appends to the head.
add_tag_to_body_both(tags) ==
    LET r == AppendLoop(body, tags) IN
    /\ pc = "idle"
    /\ Len(r.section.tag_content) + Len(head.tag_content) <= MaxContent
    /\ op' = "add_tag_to_body"
    /\ body' = r.section
    /\ head' = AppendLoop(head, tags).section
    /\ ret' = IF r.raised THEN RetRaise("Exception") ELSE RetObj(body')
    /\ args' = (IF r.raised THEN <<>> ELSE tags) /\ kwargs' = <<>>
    /\ last_render' = Stale /\ written' = NoOutput
    /\ UNCHANGED <<lang, template, pc, handles>>

add_tag_to_body(tags) ==
    LET r == AppendLoop(body, tags) IN
    /\ pc = "idle"
    /\ Len(r.section.tag_content) + Len(head.tag_content) <= MaxContent
    /\ op' = "add_tag_to_body"
    /\ body' = r.section
    /\ ret' = IF r.raised THEN RetRaise("Exception") ELSE RetObj(body')
    /\ args' = (IF r.raised THEN <<>> ELSE tags) /\ kwargs' = <<>>
    /\ last_render' = Stale /\ written' = NoOutput
    /\ UNCHANGED <<lang, template, head, pc, handles>>

\* A render that folds the body into the head as it goes.
RenderAccumulating(name) ==
    /\ pc = "idle"
    /\ op' = name
    /\ ret' = RetStr(render)
    /\ last_render' = Fresh(render, last_render.valid)
    /\ head' = [head EXCEPT !.tag_content = @ \o body.tag_content]
    /\ args' = <<>> /\ kwargs' = <<>> /\ written' = NoOutput
    /\ UNCHANGED <<lang, template, body, pc, handles>>

\* render(), and __str__ / __repr__, which return self.render()
Render(name) ==
    /\ pc = "idle"
    /\ op' = name
    /\ ret' = RetStr(render)
    /\ last_render' = Fresh(render, last_render.valid)
    /\ args' = <<>> /\ kwargs' = <<>> /\ written' = NoOutput
    /\ UNCHANGED <<page, pc, handles>>

Pretty(html_content) ==
    /\ pc = "idle"
    /\ op' = "pretty"
    /\ ret' = RetStr(pretty(html_content))
    /\ args' = <<>> /\ kwargs' = <<>> /\ written' = NoOutput
    /\ UNCHANGED <<page, last_render, pc, handles>>

\* open(filename, "w"): raises on a path that cannot be opened; otherwise a
\* handle is acquired and the file is created or truncated.
WriteOpen(filename) ==
    /\ pc = "idle"
    /\ op' = "write"
    /\ IF filename = BadPath
       THEN /\ ret' = RetRaise("OSError")
            /\ written' = NoOutput
            /\ UNCHANGED <<pc, handles>>
       ELSE /\ pc' = "write_body"
            /\ handles' = handles + 1
            /\ written' = [opened |-> TRUE, lines |-> <<>>]
            /\ ret' = Pending
    /\ args' = <<>> /\ kwargs' = <<>>
    /\ UNCHANGED <<page, last_render>>

\* A write without the with block: the handle stays open when the write raises.
WriteBodyLeaking(full) ==
    /\ pc = "write_body"
    /\ pc' = "idle"
    /\ IF full
       THEN /\ ret' = RetRaise("OSError")
            /\ UNCHANGED <<written, handles>>
       ELSE /\ ret' = RetNone
            /\ handles' = handles - 1
            /\ written' = [opened |-> TRUE, lines |-> pretty(PyStr(""))]
    /\ UNCHANGED <<page, last_render, op, args, kwargs>>

\* f.write(self.pretty()) and the exit of the with block, which closes the
\* handle whether or not the write raised (full: the device has no room).
WriteBody(full) ==
    /\ pc = "write_body"
    /\ pc' = "idle"
    /\ handles' = handles - 1
    /\ IF full
       THEN /\ ret' = RetRaise("OSError")
            /\ UNCHANGED written
       ELSE /\ ret' = RetNone
            /\ written' = [opened |-> TRUE, lines |-> pretty(PyStr(""))]
    /\ UNCHANGED <<page, last_render, op, args, kwargs>>

Next ==
    \/ \E a \in ArgSeqs, p \in PropsChoices : set_head(a, p)
    \/ \E a \in ArgSeqs, p \in PropsChoices : set_body(a, p)
    \/ \E a \in ArgSeqs : add_tag_to_head(a)
    \/ \E a \in ArgSeqs : add_tag_to_body(a)
    \/ \E n \in {"render", "__str__", "__repr__"} : Render(n)
    \/ \E c \in ContentArgs : Pretty(c)
    \/ \E fn \in Paths : WriteOpen(fn)
    \/ \E full \in BOOLEAN : WriteBody(full)

Spec == Init /\ [][Next]_vars

----------------------------------------------------------------------------
\* Properties.

RenderOps == {"render", "__str__", "__repr__"}
Mutators == {"set_head", "set_body", "add_tag_to_head", "add_tag_to_body"}

\* str(f1) ... str(fn), concatenated in call order
RECURSIVE JoinStr(_)
JoinStr(fragments) ==
    IF fragments = <<>> THEN <<>>
    ELSE Str(Head(fragments)) \o JoinStr(Tail(fragments))

IsPrefix(s, t) == Len(s) <= Len(t) /\ SubSeq(t, 1, Len(s)) = s

EmptyHead == [cls |-> "Head", tag |-> "head", tag_content |-> <<>>, props |-> <<>>]
EmptyBody == [cls |-> "Body", tag |-> "body", tag_content |-> <<>>, props |-> <<>>]

\* C1: a call of add_tag_to_head (add_tag_to_body) with fragments f1..fn that
\* returns leaves the head (body) content equal to the content before the call
\* followed by str(f1) ... str(fn) in call order; the content before any such
\* call is a prefix of the content after it.
C1_AddAppends ==
    [][ /\ (op' = "add_tag_to_head" /\ ret'.kind = "object") =>
              head'.tag_content = head.tag_content \o JoinStr(args')
        /\ (op' = "add_tag_to_body" /\ ret'.kind = "object") =>
              body'.tag_content = body.tag_content \o JoinStr(args')
        /\ op' = "add_tag_to_head" => IsPrefix(head.tag_content, head'.tag_content)
        /\ op' = "add_tag_to_body" => IsPrefix(body.tag_content, body'.tag_content)
      ]_vars

\* add_tag_to_head("<p>hi</p>", P()) has returned a head that holds the content
\* the constructor gave it followed by the two fragments in call order
C1_Witness ==
    /\ op = "add_tag_to_head" /\ ret.kind = "object"
    /\ args = <<PyStr("<p>hi</p>"), PyElem("")>>
    /\ head.tag_content = <<Text("None"), Text("<p>hi</p>"), Open("p", <<>>), Close("p")>>

\* C2: a call set_head(f1..fn, **attributes) that returns leaves the head with
\* content exactly str(f1) ... str(fn) in call order and exactly the given
\* attribute map, whatever the head held before; the same for set_body.
C2_SetReplaces ==
    /\ (op = "set_head" /\ ret.kind = "object") =>
          head.tag_content = JoinStr(args) /\ head.props = kwargs
    /\ (op = "set_body" /\ ret.kind = "object") =>
          body.tag_content = JoinStr(args) /\ body.props = kwargs

\* set_head(P(), "<p>hi</p>", id="m") has returned the new head
C2_Witness ==
    /\ op = "set_head" /\ ret.kind = "object"
    /\ args = <<PyElem(""), PyStr("<p>hi</p>")>> /\ kwargs = <<<<"id", "m">>>>
    /\ head.tag_content = <<Open("p", <<>>), Close("p"), Text("<p>hi</p>")>>
    /\ head.props = <<<<"id", "m">>>>

\* C3: render(), str(page) and repr(page) leave the language code, the head and
\* the body unchanged and return a string, the same string as the previous such
\* call when no set_* or add_tag_to_* call came between.
C3_RenderIdempotent ==
    [][ op' \in RenderOps =>
          /\ UNCHANGED <<lang, template, head, body>>
          /\ ret'.kind = "str"
          /\ last_render.valid => ret'.text = last_render.text
      ]_vars

\* a second rendering with no mutator call since the first
C3_Witness ==
    /\ op = "__repr__" /\ last_render.valid /\ last_render.again
    /\ ret.text = last_render.text
    /\ body.tag_content # <<>>

\* C4: render() returns the doctype, then one html element with exactly one
\* lang attribute, whose value is the page's language code, and whose content
\* is the head's string form followed by the body's string form.
C4_RenderShape ==
    op \in RenderOps =>
        /\ ret.text = <<DocTypeTok, Open("html", <<<<"lang", lang>>>>)>>
                        \o StrElement(head) \o StrElement(body) \o <<Close("html")>>
        /\ LET o == ret.text[2] IN
             /\ o.t = "open" /\ o.name = "html"
             /\ Cardinality({i \in DOMAIN o.attrs : o.attrs[i][1] = "lang"}) = 1
             /\ \A i \in DOMAIN o.attrs : o.attrs[i][1] = "lang" => o.attrs[i][2] = lang

\* the page built with lang="fr" after add_tag_to_body("<p>hi</p>"), rendered
C4_Witness ==
    /\ op = "render" /\ lang = "fr"
    /\ ret.text = <<DocTypeTok, Open("html", <<<<"lang", "fr">>>>),
                    Open("head", <<>>), Close("head"),
                    Open("body", <<>>), Text("<p>hi</p>"), Close("body"),
                    Close("html")>>

\* C5: a set_* or add_tag_to_* call that raises leaves the head and the body as
\* they were before the call.
C5_AllOrNothing ==
    [][ (op' \in Mutators /\ ret'.kind = "raise") => UNCHANGED <<head, body>> ]_vars

\* C6: the page owns a Head as its head and a Body as its body in every state,
\* and the section a set_* or add_tag_to_* call returns is the one the page owns.
C6_OwnsHeadAndBody ==
    /\ head.cls = "Head" /\ head.tag = "head"
    /\ body.cls = "Body" /\ body.tag = "body"
    /\ (op \in {"set_head", "add_tag_to_head"} /\ ret.kind = "object") => ret.obj = head
    /\ (op \in {"set_body", "add_tag_to_body"} /\ ret.kind = "object") => ret.obj = body

\* set_body has returned the new body after an earlier call changed the head
C6_Witness ==
    /\ op = "set_body" /\ ret.kind = "object" /\ ret.obj = body
    /\ body.tag_content # <<>> /\ head.props # <<>>

C8_EmptyByDefault ==
    (op = "__init__" /\ args = <<PyNone, PyNone>>) =>
        /\ head.tag_content = <<>> /\ body.tag_content = <<>>
        /\ StrElement(head) = <<Open("head", <<>>), Close("head")>>
        /\ StrElement(body) = <<Open("body", <<>>), Close("body")>>

\* C9: write(path) never holds more than one handle and holds none once it has
\* ended; it ends by raising OSError or by returning None; on a path that cannot
\* be opened, or when the write fails, it raises; when it returns, the file holds
\* the pretty-printed rendering of the page; the page is unchanged throughout.
C9_WriteReleases ==
    [][ op' = "write" =>
          /\ UNCHANGED <<lang, template, head, body>>
          /\ handles' \in {0, 1}
          /\ pc' = "idle" =>
                /\ handles' = 0
                /\ ret'.kind \in {"None", "raise"}
                /\ ret'.kind = "raise" => ret'.exc = "OSError"
                /\ ret'.kind = "None" =>
                      written' = [opened |-> TRUE, lines |-> Prettify(render, 0)]
          /\ WriteOpen(BadPath) => ret'.kind = "raise" /\ ~written'.opened
          /\ WriteBody(TRUE) => ret'.kind = "raise"
      ]_vars

\* a write that failed after its handle was acquired has ended
C9_Witness ==
    /\ op = "write" /\ pc = "idle" /\ ret.kind = "raise" /\ ret.exc = "OSError"
    /\ written.opened /\ handles = 0

\* C10: set_head and add_tag_to_head leave the body and the language code
\* unchanged, set_body and add_tag_to_body leave the head and the language code
\* unchanged, add_tag_to_* leaves the attributes of its section unchanged, and
\* no operation changes the language code.
C10_Frame ==
    [][ /\ op' \in {"set_head", "add_tag_to_head"} => UNCHANGED <<body, lang>>
        /\ op' \in {"set_body", "add_tag_to_body"} => UNCHANGED <<head, lang>>
        /\ op' = "add_tag_to_head" => head'.props = head.props
        /\ op' = "add_tag_to_body" => body'.props = body.props
        /\ lang' = lang
      ]_vars

\* add_tag_to_body has appended to the body of a page whose head has attributes
C10_Witness ==
    /\ op = "add_tag_to_body" /\ ret.kind = "object"
    /\ body.tag_content # <<>> /\ body.props # <<>>
    /\ head.tag_content = <<>> /\ head.props # <<>>

====
